---- MODULE Spec2Model ----
(***************************************************************************)
(* Model of the LLDoice distribution engine (src/src/pdf.rs): a PDF is an  *)
(* ordered map from integer outcomes (Sample = isize) to masses of a       *)
(* generic Number type T, carrying the type-level SOUND flag.              *)
(*                                                                         *)
(* The mass type T is instantiated by exact rationals <<num, den>> in      *)
(* lowest terms with den > 0, so that T::zero() = <<0,1>>, T::one() =      *)
(* <<1,1>>, and +, -, * are the exact field operations; to_f64 is exact on *)
(* this domain.                                                            *)
(***************************************************************************)
EXTENDS Integers, Sequences, FiniteSets, TLC

VARIABLES data, sound, op, prev, arg, ret, budget, fpp, fop, farg, fret

pdfvars == <<data, sound, op, prev, arg, ret, budget>>

fppvars == <<fpp, fop, farg, fret>>

vars == <<data, sound, op, prev, arg, ret, budget, fpp, fop, farg, fret>>

(***************************************************************************)
(* Bounds of the model.                                                    *)
(***************************************************************************)
\* outcomes of a raw input map are drawn from 0..MaxKey
MaxKey == 1
\* number of operations applied to one PDF value after its construction
MaxOps == 2
\* autoconvolute is called with n in 0..MaxN
MaxN == 2
\* operations are applied only to maps whose outcomes lie in -MaxOutcome..MaxOutcome
MaxOutcome == 4
\* ... and whose masses have a denominator of at most MaxDen
MaxDen == 256
\* width in bits of the magnitude type Fpnum of the model (usize has 64)
FppBits == 4
\* significand width in bits of the floating-point type of the model (f64 has 53)
FloatBits == 3

(***************************************************************************)
(* Exact rational arithmetic: the Number capability set (pdf.rs 61-81).    *)
(***************************************************************************)
Abs(x) == IF x < 0 THEN -x ELSE x

RECURSIVE GCD(_, _)
GCD(a, b) == IF b = 0 THEN a ELSE GCD(b, a % b)

\* the rational n/d (d # 0) in lowest terms with a positive denominator
Norm(n, d) ==
    LET g == GCD(Abs(n), Abs(d))
        s == IF d < 0 THEN -1 ELSE 1
    IN  <<(s * n) \div g, (s * d) \div g>>

zero == <<0, 1>>
one == <<1, 1>>

RAdd(p, q) ==
    LET g == GCD(p[2], q[2])
        l == (p[2] \div g) * q[2]
    IN  Norm(p[1] * (l \div p[2]) + q[1] * (l \div q[2]), l)

RNeg(p) == <<-p[1], p[2]>>

RSub(p, q) == RAdd(p, RNeg(q))

RMul(p, q) ==
    LET g1 == GCD(Abs(p[1]), q[2])
        g2 == GCD(Abs(q[1]), p[2])
    IN  Norm((p[1] \div g1) * (q[1] \div g2), (p[2] \div g2) * (q[2] \div g1))

RLt(p, q) == p[1] * q[2] < q[1] * p[2]

RLe(p, q) == p[1] * q[2] <= q[1] * p[2]

RAbs(p) == <<Abs(p[1]), p[2]>>

is_zero(p) == p = zero

\* num::pow(base, exp) for exp >= 1
RECURSIVE pow(_, _)
pow(base, exp) == IF exp <= 1 THEN base ELSE RMul(base, pow(base, exp - 1))

(***************************************************************************)
(* BTreeMap<Sample, T>: a function with a finite domain of integers.       *)
(***************************************************************************)
EmptyMap == [k \in {} |-> zero]

RECURSIVE SortedSeq(_)
SortedSeq(S) ==
    IF S = {} THEN <<>>
    ELSE LET m == CHOOSE x \in S : \A y \in S : x <= y
         IN  <<m>> \o SortedSeq(S \ {m})

Reverse(s) == [i \in 1..Len(s) |-> s[Len(s) + 1 - i]]

\* BTreeMap::iter(): the entries <<key, value>> in ascending key order
Entries(m) ==
    LET ks == SortedSeq(DOMAIN m)
    IN  [i \in 1..Len(ks) |-> <<ks[i], m[ks[i]]>>]

\* BTreeMap::insert: a later value replaces an earlier one at the same key
Put(m, k, v) == [x \in (DOMAIN m) \cup {k} |-> IF x = k THEN v ELSE m[x]]

\* FromIterator for BTreeMap: insert the pairs one after the other
RECURSIVE CollectFrom(_, _, _)
CollectFrom(es, i, acc) ==
    IF i > Len(es) THEN acc
    ELSE CollectFrom(es, i + 1, Put(acc, es[i][1], es[i][2]))

Collect(es) == CollectFrom(es, 1, EmptyMap)

\* entry(k).and_modify(|e| *e += v).or_insert_with(|| v), pair after pair
RECURSIVE AccumulateFrom(_, _, _)
AccumulateFrom(es, i, acc) ==
    IF i > Len(es) THEN acc
    ELSE LET k == es[i][1]
             v == es[i][2]
         IN  AccumulateFrom(es, i + 1,
                 IF k \in DOMAIN acc THEN [acc EXCEPT ![k] = RAdd(@, v)]
                 ELSE Put(acc, k, v))

Accumulate(es) == AccumulateFrom(es, 1, EmptyMap)

\* values().fold(T::zero(), |acc, v| acc + v)
RECURSIVE FoldSum(_, _, _)
FoldSum(es, i, acc) ==
    IF i > Len(es) THEN acc ELSE FoldSum(es, i + 1, RAdd(acc, es[i][2]))

total(m) == FoldSum(Entries(m), 1, zero)

(***************************************************************************)
(* Inputs of the model.                                                    *)
(***************************************************************************)
\* masses a caller may put into a raw map: below 0, 0, inside (0,1), within
\* MAX_ERROR of 1 without being 1, and 1
Masses == {<<-1, 2>>, zero, <<1, 2>>, <<127, 128>>, one}

\* the raw maps handed to From<BTreeMap<Sample, T>>
Raw == UNION {[K -> Masses] : K \in SUBSET (0..MaxKey)}

Deltas == {-1, 2}
Factors == {-1, 0, 2}
ProbFactors == {<<1, 2>>, one}
QueryBounds == -1..(MaxKey + 1)
AdvantageCounts == 0..1

\* the model's arithmetic range: outcomes and masses an operation is applied to
Representable(m) ==
    \A k \in DOMAIN m :
        /\ k \in -MaxOutcome..MaxOutcome
        /\ m[k][2] <= MaxDen
        /\ Abs(m[k][1]) <= 4 * m[k][2]

(***************************************************************************)
(* PDF<T, SOUND>: the operations of pdf.rs as functions of the map.        *)
(***************************************************************************)
\* PDF::offset: map every key to k + offset and collect
offset(m, delta) ==
    LET es == Entries(m)
    IN  Collect([i \in 1..Len(es) |-> <<es[i][1] + delta, es[i][2]>>])

\* PDF::scale: map every key to k * scale and collect
scale(m, factor) ==
    LET es == Entries(m)
    IN  Collect([i \in 1..Len(es) |-> <<es[i][1] * factor, es[i][2]>>])

check_number(num) == RLt(zero, num) /\ RLt(num, one)

MAX_ERROR == <<1, 100>>

check_total(m) ==
    /\ RLt(RAbs(RSub(one, total(m))), MAX_ERROR)
    /\ \A k \in DOMAIN m : check_number(m[k])

Ok(m) == [kind |-> "Ok", data |-> m]
Err(e) == [kind |-> "Err", err |-> e]
Unit == [kind |-> "Unit"]
Panic(msg) == [kind |-> "Panic", msg |-> msg]
None == [kind |-> "None"]
Some(e) == [kind |-> "Some", key |-> e[1], val |-> e[2]]
Value(v) == [kind |-> "Value", val |-> v]

validate(m) == IF check_total(m) THEN Ok(m) ELSE Err("InvalidProbability")

\* the pairs of the nested loops of the convolution operators, outer loop over
\* self, inner loop over rhs
PairIndex(a, b) == 1..(Cardinality(DOMAIN a) * Cardinality(DOMAIN b))
Outer(es, fs, i) == es[((i - 1) \div Len(fs)) + 1]
Inner(es, fs, i) == fs[((i - 1) % Len(fs)) + 1]

\* impl Add for &PDF with insert in place of and_modify: a later pair replaces
\* the mass an earlier pair left at the same key
add_overwrite(a, b) ==
    LET es == Entries(a)
        fs == Entries(b)
    IN  Collect([i \in PairIndex(a, b) |->
            <<Outer(es, fs, i)[1] + Inner(es, fs, i)[1],
              RMul(Outer(es, fs, i)[2], Inner(es, fs, i)[2])>>])

\* impl Add for &PDF with the key outcome - k in place of outcome + k
add_subtract_keys(a, b) ==
    LET es == Entries(a)
        fs == Entries(b)
    IN  Accumulate([i \in PairIndex(a, b) |->
            <<Outer(es, fs, i)[1] - Inner(es, fs, i)[1],
              RMul(Outer(es, fs, i)[2], Inner(es, fs, i)[2])>>])

\* impl Add for &PDF
add(a, b) ==
    LET es == Entries(a)
        fs == Entries(b)
    IN  Accumulate([i \in PairIndex(a, b) |->
            <<Outer(es, fs, i)[1] + Inner(es, fs, i)[1],
              RMul(Outer(es, fs, i)[2], Inner(es, fs, i)[2])>>])

\* impl Mul for &PDF
mul(a, b) ==
    LET es == Entries(a)
        fs == Entries(b)
    IN  Accumulate([i \in PairIndex(a, b) |->
            <<Outer(es, fs, i)[1] * Inner(es, fs, i)[1],
              RMul(Outer(es, fs, i)[2], Inner(es, fs, i)[2])>>])

\* isize division truncates toward zero
TruncDiv(x, y) ==
    IF (x >= 0) = (y > 0) THEN Abs(x) \div Abs(y) ELSE -(Abs(x) \div Abs(y))

\* outcome / k panics ("attempt to divide by zero") as soon as a pair has k = 0
DivPanics(a, b) == DOMAIN a # {} /\ 0 \in DOMAIN b

\* impl Div for &PDF, when no pair divides by zero
div(a, b) ==
    LET es == Entries(a)
        fs == Entries(b)
    IN  Accumulate([i \in PairIndex(a, b) |->
            <<TruncDiv(Outer(es, fs, i)[1], Inner(es, fs, i)[1]),
              RMul(Outer(es, fs, i)[2], Inner(es, fs, i)[2])>>])

\* PDF::autoconvolute: n times, result = &result + &result
RECURSIVE autoconvolute(_, _)
autoconvolute(m, n) == IF n = 0 THEN m ELSE autoconvolute(add(m, m), n - 1)

\* every operand of the loop of autoconvolute is within the model's range
RECURSIVE AutoRepresentable(_, _)
AutoRepresentable(m, n) ==
    IF n = 0 THEN TRUE
    ELSE Representable(m) /\ AutoRepresentable(add(m, m), n - 1)

scale_probabilities(m, factor) == [k \in DOMAIN m |-> RMul(m[k], factor)]

add_pointwise(m, other) == AccumulateFrom(Entries(other), 1, m)

square_probabilities(m) == [k \in DOMAIN m |-> RMul(m[k], m[k])]

invert_probabilities(m) == [k \in DOMAIN m |-> RSub(one, m[k])]

\* scan(T::zero(), ..) emitting the state after adding v
RECURSIVE ScanInclusive(_, _, _)
ScanInclusive(es, i, state) ==
    IF i > Len(es) THEN <<>>
    ELSE LET next == RAdd(state, es[i][2])
         IN  <<<<es[i][1], next>>>> \o ScanInclusive(es, i + 1, next)

\* scan(T::zero(), ..) emitting the state before adding v
RECURSIVE ScanExclusive(_, _, _)
ScanExclusive(es, i, state) ==
    IF i > Len(es) THEN <<>>
    ELSE <<<<es[i][1], state>>>> \o ScanExclusive(es, i + 1, RAdd(state, es[i][2]))

\* PDF::cumulative with the state cloned before *state += v
cumulative_swapped(m) == Collect(ScanExclusive(Entries(m), 1, zero))

cumulative(m) == Collect(ScanInclusive(Entries(m), 1, zero))

cumulative_exclusive(m) == Collect(ScanExclusive(Entries(m), 1, zero))

rev_cumulative(m) == Collect(ScanInclusive(Reverse(Entries(m)), 1, zero))

rev_cumulative_exclusive(m) == Collect(ScanExclusive(Reverse(Entries(m)), 1, zero))

(***************************************************************************)
(* PDF::with_advantage.  The iterator is                                   *)
(*   values_mut().scan(zero, ..).chain(one.iter_mut()).peekable()          *)
(* over the m stored masses followed by the sentinel; item j of the chain  *)
(* is produced lazily, when next() or peek() first asks for it.            *)
(***************************************************************************)
\* the scan closure, run when item j is produced: for a stored mass,
\* tmp = state; state += v; v = pow(tmp, n + 1); the sentinel is passed on
Produce(it, j, e) ==
    IF j <= Len(it.vals)
        THEN [it EXCEPT !.vals[j] = pow(it.state, e),
                        !.state = RAdd(it.state, it.vals[j]),
                        !.produced = j]
        ELSE [it EXCEPT !.produced = j]

\* the value of item j of the chain
Item(it, j) == IF j <= Len(it.vals) THEN it.vals[j] ELSE it.sentinel

\* while let Some(first) = iter.next() { *first = peek().expect(..) - first }
\* with i the position of the item next() returns
RECURSIVE Collapse(_, _, _)
Collapse(it, i, e) ==
    LET last == Len(it.vals) + 1
    IN  IF i > last THEN [vals |-> it.vals, panicked |-> FALSE]
        ELSE LET taken == IF it.produced < i THEN Produce(it, i, e) ELSE it
             IN  IF i + 1 > last
                     THEN [vals |-> taken.vals, panicked |-> TRUE]
                     ELSE LET peeked == IF taken.produced < i + 1
                                            THEN Produce(taken, i + 1, e)
                                            ELSE taken
                              diff == RSub(Item(peeked, i + 1), Item(peeked, i))
                          IN  Collapse(
                                  IF i <= Len(it.vals)
                                      THEN [peeked EXCEPT !.vals[i] = diff]
                                      ELSE [peeked EXCEPT !.sentinel = diff],
                                  i + 1, e)

\* the map after with_advantage(n) and whether the expect panicked
with_advantage(m, n) ==
    LET es == Entries(m)
        it == [vals |-> [i \in 1..Len(es) |-> es[i][2]],
               state |-> zero, sentinel |-> one, produced |-> 0]
        r == Collapse(it, 1, n + 1)
    IN  [data |-> [k \in DOMAIN m |->
                     r.vals[CHOOSE i \in 1..Len(es) : es[i][1] = k]],
         panicked |-> r.panicked]

(***************************************************************************)
(* Bound queries (btree_cursors): a cursor rests in a gap between entries; *)
(* gap g has g entries before it.                                          *)
(***************************************************************************)
\* BTreeMap::upper_bound(Bound::Included(&bound)): the gap after the greatest
\* key <= bound
upper_bound(m, bound) == Cardinality({k \in DOMAIN m : k <= bound})

\* BTreeMap::lower_bound(Bound::Included(&bound)): the gap before the smallest
\* key >= bound
lower_bound(m, bound) == Cardinality({k \in DOMAIN m : k < bound})

\* Cursor::next(): the entry after the gap, if any
CursorNext(m, gap) ==
    LET es == Entries(m)
    IN  IF gap < Len(es) THEN Some(es[gap + 1]) ELSE None

get_nearest_below(m, bound) == CursorNext(m, upper_bound(m, bound))

\* .map(|(_, v)| v).cloned().or_else(|| Some(T::zero())).unwrap()
get_value_below(m, bound) ==
    LET e == CursorNext(m, upper_bound(m, bound))
    IN  IF e.kind = "Some" THEN e.val ELSE zero

get_nearest_above(m, bound) == CursorNext(m, lower_bound(m, bound))

get_value_above(m, bound) ==
    LET e == CursorNext(m, lower_bound(m, bound))
    IN  IF e.kind = "Some" THEN e.val ELSE zero

\* data.retain(|_, v| !v.is_zero())
trim_zeroes(m) == [k \in {x \in DOMAIN m : ~is_zero(m[x])} |-> m[k]]

\* impl Default for PDF<T, true>
DefaultMap == [k \in {0} |-> one]

(***************************************************************************)
(* The fixed-point probability Fpp(Fpnum) of numerics/fpp.rs: a magnitude  *)
(* in 0..Fpnum::MAX standing for magnitude / MAX.  Floating-point values   *)
(* are dyadic rationals <<num, den>> with at most FloatBits significant    *)
(* bits.                                                                   *)
(***************************************************************************)
RECURSIVE Pow2(_)
Pow2(n) == IF n = 0 THEN 1 ELSE 2 * Pow2(n - 1)

\* Fpnum::MAX
FpnumMax == Pow2(FppBits) - 1

\* the number of bits of n >= 0
RECURSIVE BitLength(_)
BitLength(n) == IF n = 0 THEN 0 ELSE 1 + BitLength(n \div 2)

\* n >= 0 rounded to FloatBits significant bits, ties to even
RoundSignificand(n) ==
    IF BitLength(n) <= FloatBits THEN n
    ELSE LET u == Pow2(BitLength(n) - FloatBits)
             q == n \div u
             r == n % u
         IN  IF 2 * r > u \/ (2 * r = u /\ q % 2 = 1) THEN (q + 1) * u ELSE q * u

\* a dyadic rational rounded to the nearest floating-point value
RoundFloat(q) ==
    IF q[1] < 0 THEN Norm(-RoundSignificand(-q[1]), q[2])
    ELSE Norm(RoundSignificand(q[1]), q[2])

\* ToPrimitive::to_f64 of an Fpnum
usize_to_f64(n) == <<RoundSignificand(n), 1>>

\* f64 multiplication
f64_mul(x, y) == RoundFloat(RMul(x, y))

\* `as Fpnum` on an f64: truncates toward zero and saturates at 0 and MAX
f64_as_usize(x) ==
    IF x[1] <= 0 THEN 0
    ELSE IF x[1] \div x[2] > FpnumMax THEN FpnumMax
    ELSE x[1] \div x[2]

\* Fpp::bounds(): T::zero()..=T::one()
bounds_contains(value) == RLe(zero, value) /\ RLe(value, one)

\* Fpp::check_bounds with the half-open range T::zero()..T::one()
check_bounds_half_open(value) ==
    IF ~(RLe(zero, value) /\ RLt(value, one))
        THEN Err("InvalidProbability")
        ELSE [kind |-> "Ok", val |-> value]

\* Fpp::check_bounds
check_bounds(value) ==
    IF ~bounds_contains(value)
        THEN Err("InvalidProbability")
        ELSE [kind |-> "Ok", val |-> value]

\* ToFpp::to_fpp for a source value of type f64
to_fpp(value) ==
    LET checked == check_bounds(value)
    IN  IF checked.kind = "Err" THEN checked
        ELSE [kind |-> "Ok",
              val |-> f64_as_usize(f64_mul(checked.val, usize_to_f64(FpnumMax)))]

\* Fpp::one() and Fpp::zero()
fpp_one == FpnumMax
fpp_zero == 0

FppValue(n) == [kind |-> "Fpp", val |-> n]

\* an Fpnum result r of +, - or *: when it leaves 0..MAX the operation panics
\* with overflow checks on (debug builds) and wraps modulo 2^FppBits with
\* them off (release builds)
Overflows(r) == r < 0 \/ r > FpnumMax
Wrap(r) == r % Pow2(FppBits)

\* impl Add for Fpp: Fpp(self.0 + rhs.0)
fpp_add(a, b, overflow_checks) ==
    IF Overflows(a + b) /\ overflow_checks
        THEN Panic("attempt to add with overflow")
        ELSE FppValue(Wrap(a + b))

\* impl Sub for Fpp: Fpp(self.0 - rhs.0)
fpp_sub(a, b, overflow_checks) ==
    IF Overflows(a - b) /\ overflow_checks
        THEN Panic("attempt to subtract with overflow")
        ELSE FppValue(Wrap(a - b))

\* impl Mul for Fpp: Fpp((self.0 * rhs.0) / Fpnum::MAX)
fpp_mul(a, b, overflow_checks) ==
    IF Overflows(a * b) /\ overflow_checks
        THEN Panic("attempt to multiply with overflow")
        ELSE FppValue(Wrap(a * b) \div FpnumMax)

\* impl Div for Fpp: Fpp((self.0 * Fpnum::MAX) / rhs.0)
fpp_div(a, b, overflow_checks) ==
    IF Overflows(a * FpnumMax) /\ overflow_checks
        THEN Panic("attempt to multiply with overflow")
        ELSE IF b = 0 THEN Panic("attempt to divide by zero")
        ELSE FppValue(Wrap(a * FpnumMax) \div b)

\* the f64 source values of the model: the multiples of 1 / 2^(FppBits + 1)
\* from -1 to 2 that have at most FloatBits significant bits
SourceValues ==
    {Norm(k, Pow2(FppBits + 1)) :
        k \in {j \in -Pow2(FppBits + 1)..Pow2(FppBits + 2) :
                  RoundSignificand(Abs(j)) = Abs(j)}}

\* impl Default for Fpp (derived): Fpp(0), no operation applied yet
FppFresh ==
    /\ fpp = 0
    /\ fop = "default"
    /\ farg = [kind |-> "none"]
    /\ fret = [kind |-> "Unit"]

(***************************************************************************)
(* The state machine: the life of one PDF value.                           *)
(*   data, sound  the map and the SOUND flag of the value                  *)
(*   op, arg      the last operation applied and its argument              *)
(*   prev         the receiver of that operation                           *)
(*   ret          what the operation returned besides the value            *)
(*   budget       operations still to apply                                *)
(***************************************************************************)
NoArg == [kind |-> "none"]
IntArg(n) == [kind |-> "int", n |-> n]
MassArg(v) == [kind |-> "mass", val |-> v]
PdfArg(m) == [kind |-> "pdf", data |-> m]

\* the three constructors: PDF::new(), From<BTreeMap>, Default
Constructed ==
    \/ data = EmptyMap /\ sound = FALSE /\ op = "new"
    \/ data \in Raw /\ sound = FALSE /\ op = "from"
    \/ data = DefaultMap /\ sound = TRUE /\ op = "default"

Fresh ==
    /\ prev = [data |-> EmptyMap, sound |-> FALSE]
    /\ arg = NoArg
    /\ ret = Unit

Init == Constructed /\ Fresh /\ budget = MaxOps /\ FppFresh

\* one operation applied to a freshly constructed value
InitOps == Constructed /\ Fresh /\ budget = 1 /\ FppFresh

\* the value still exists (no panic, not consumed by a failed validate) and
\* lies in the model's range
Ready ==
    /\ budget > 0
    /\ ret.kind \notin {"Panic", "Err"}
    /\ Representable(data)

Apply(name, a, m, s, r) ==
    /\ op' = name
    /\ arg' = a
    /\ prev' = [data |-> data, sound |-> sound]
    /\ data' = m
    /\ sound' = s
    /\ ret' = r
    /\ budget' = budget - 1
    /\ UNCHANGED fppvars

\* the right-hand operands of a binary operator: PDFs with the receiver's flag
Operands(s) == IF s THEN {r \in Raw : check_total(r)} \cup {DefaultMap} ELSE Raw

Validate ==
    /\ Ready
    /\ LET r == validate(data)
       IN  IF r.kind = "Ok"
               THEN Apply("validate", NoArg, r.data, TRUE, r)
               ELSE Apply("validate", NoArg, EmptyMap, FALSE, r)

AssertUnsoundness ==
    /\ Ready
    /\ Apply("assert_unsoundness", NoArg, data, FALSE, Unit)

Offset ==
    /\ Ready
    /\ \E delta \in Deltas :
           Apply("offset", IntArg(delta), offset(data, delta), sound, Unit)

Scale ==
    /\ Ready
    /\ \E factor \in Factors :
           Apply("scale", IntArg(factor), scale(data, factor), sound, Unit)

Autoconvolute ==
    /\ Ready
    /\ \E n \in 0..MaxN :
           /\ AutoRepresentable(data, n)
           /\ Apply("autoconvolute", IntArg(n), autoconvolute(data, n), sound, Unit)

ScaleProbabilities ==
    /\ Ready
    /\ \E factor \in ProbFactors :
           Apply("scale_probabilities", MassArg(factor),
                 scale_probabilities(data, factor), FALSE, Unit)

AddPointwise ==
    /\ Ready
    /\ \E other \in Operands(sound) :
           Apply("add_pointwise", PdfArg(other), add_pointwise(data, other),
                 FALSE, Unit)

SquareProbabilities ==
    /\ Ready
    /\ Apply("square_probabilities", NoArg, square_probabilities(data), FALSE, Unit)

InvertProbabilities ==
    /\ Ready
    /\ Apply("invert_probabilities", NoArg, invert_probabilities(data), sound, Unit)

Cumulative ==
    /\ Ready
    /\ Apply("cumulative", NoArg, cumulative(data), FALSE, Unit)

CumulativeExclusive ==
    /\ Ready
    /\ Apply("cumulative_exclusive", NoArg, cumulative_exclusive(data), FALSE, Unit)

RevCumulative ==
    /\ Ready
    /\ Apply("rev_cumulative", NoArg, rev_cumulative(data), FALSE, Unit)

RevCumulativeExclusive ==
    /\ Ready
    /\ Apply("rev_cumulative_exclusive", NoArg, rev_cumulative_exclusive(data),
             FALSE, Unit)

WithAdvantage ==
    /\ Ready
    /\ \E n \in AdvantageCounts :
           LET r == with_advantage(data, n)
           IN  Apply("with_advantage", IntArg(n), r.data, sound,
                     IF r.panicked THEN Panic("Bring me another") ELSE Unit)

GetNearestBelow ==
    /\ Ready
    /\ \E bound \in QueryBounds :
           Apply("get_nearest_below", IntArg(bound), data, sound,
                 get_nearest_below(data, bound))

GetValueBelow ==
    /\ Ready
    /\ \E bound \in QueryBounds :
           Apply("get_value_below", IntArg(bound), data, sound,
                 Value(get_value_below(data, bound)))

GetNearestAbove ==
    /\ Ready
    /\ \E bound \in QueryBounds :
           Apply("get_nearest_above", IntArg(bound), data, sound,
                 get_nearest_above(data, bound))

GetValueAbove ==
    /\ Ready
    /\ \E bound \in QueryBounds :
           Apply("get_value_above", IntArg(bound), data, sound,
                 Value(get_value_above(data, bound)))

TrimZeroes ==
    /\ Ready
    /\ Apply("trim_zeroes", NoArg, trim_zeroes(data), sound, Unit)

Add ==
    /\ Ready
    /\ \E rhs \in Operands(sound) :
           Apply("add", PdfArg(rhs), add(data, rhs), sound, Unit)

Mul ==
    /\ Ready
    /\ \E rhs \in Operands(sound) :
           Apply("mul", PdfArg(rhs), mul(data, rhs), sound, Unit)

Div ==
    /\ Ready
    /\ \E rhs \in Operands(sound) :
           IF DivPanics(data, rhs)
               THEN Apply("div", PdfArg(rhs), data, sound,
                          Panic("attempt to divide by zero"))
               ELSE Apply("div", PdfArg(rhs), div(data, rhs), sound, Unit)

Next ==
    \/ Validate
    \/ AssertUnsoundness
    \/ Offset
    \/ Scale
    \/ Autoconvolute
    \/ ScaleProbabilities
    \/ AddPointwise
    \/ SquareProbabilities
    \/ InvertProbabilities
    \/ Cumulative
    \/ CumulativeExclusive
    \/ RevCumulative
    \/ RevCumulativeExclusive
    \/ WithAdvantage
    \/ GetNearestBelow
    \/ GetValueBelow
    \/ GetNearestAbove
    \/ GetValueAbove
    \/ TrimZeroes
    \/ Add
    \/ Mul
    \/ Div

Spec == Init /\ [][Next]_vars

SpecOps == InitOps /\ [][Next]_vars

(***************************************************************************)
(* The state machine of one Fpp value.                                     *)
(*   fpp         the magnitude of the value                                *)
(*   fop, farg   the last operation applied and its arguments              *)
(*   fret        what the operation returned                               *)
(***************************************************************************)
\* no PDF is operated on
InitFpp ==
    /\ data = EmptyMap /\ sound = FALSE /\ op = "new"
    /\ Fresh
    /\ budget = 0
    /\ FppFresh

FppReady == fret.kind # "Panic"

FppApply(name, a, v, r) ==
    /\ fop' = name
    /\ farg' = a
    /\ fpp' = v
    /\ fret' = r
    /\ UNCHANGED pdfvars

\* value.to_fpp(): the value becomes the result when the conversion succeeds
ToFpp ==
    /\ FppReady
    /\ \E value \in SourceValues :
           LET r == to_fpp(value)
           IN  FppApply("to_fpp", MassArg(value),
                        IF r.kind = "Ok" THEN r.val ELSE fpp, r)

\* Num::from_str_radix: any Fpnum read from a string becomes the magnitude
FromStrRadix ==
    /\ FppReady
    /\ \E n \in 0..FpnumMax :
           FppApply("from_str_radix", IntArg(n), n, [kind |-> "Ok", val |-> n])

FppOne ==
    /\ FppReady
    /\ FppApply("one", NoArg, fpp_one, FppValue(fpp_one))

FppZero ==
    /\ FppReady
    /\ FppApply("zero", NoArg, fpp_zero, FppValue(fpp_zero))

BinArg(a, b, c) == [kind |-> "fpp", lhs |-> a, rhs |-> b, overflow_checks |-> c]

\* self op rhs with self the current value; a panic leaves no value behind
FppBinary(name, r, b, c) ==
    FppApply(name, BinArg(fpp, b, c), IF r.kind = "Fpp" THEN r.val ELSE fpp, r)

FppAdd ==
    /\ FppReady
    /\ \E b \in 0..FpnumMax, c \in BOOLEAN :
           FppBinary("add", fpp_add(fpp, b, c), b, c)

FppSub ==
    /\ FppReady
    /\ \E b \in 0..FpnumMax, c \in BOOLEAN :
           FppBinary("sub", fpp_sub(fpp, b, c), b, c)

FppMul ==
    /\ FppReady
    /\ \E b \in 0..FpnumMax, c \in BOOLEAN :
           FppBinary("mul", fpp_mul(fpp, b, c), b, c)

FppDiv ==
    /\ FppReady
    /\ \E b \in 0..FpnumMax, c \in BOOLEAN :
           FppBinary("div", fpp_div(fpp, b, c), b, c)

NextFpp ==
    \/ ToFpp
    \/ FromStrRadix
    \/ FppOne
    \/ FppZero
    \/ FppAdd
    \/ FppSub
    \/ FppMul
    \/ FppDiv

SpecFpp == InitFpp /\ [][NextFpp]_vars

(***************************************************************************)
(* Properties.                                                             *)
(***************************************************************************)
InClosedUnit(v) == RLe(zero, v) /\ RLe(v, one)

\* t is within 0.01 of 1
WithinTolerance(t) == RLe(RAbs(RSub(one, t)), MAX_ERROR)

\* the sum of the masses of m at the keys in S
RECURSIVE MassSum(_, _)
MassSum(S, m) ==
    IF S = {} THEN zero
    ELSE LET k == CHOOSE x \in S : TRUE
         IN  RAdd(m[k], MassSum(S \ {k}, m))

\* the sum of a[p[1]] * b[p[2]] over the pairs p in S
RECURSIVE PairMassSum(_, _, _)
PairMassSum(S, a, b) ==
    IF S = {} THEN zero
    ELSE LET p == CHOOSE x \in S : TRUE
         IN  RAdd(RMul(a[p[1]], b[p[2]]), PairMassSum(S \ {p}, a, b))

\* how often each mass occurs in m
MassBag(m) ==
    [v \in {m[k] : k \in DOMAIN m} |-> Cardinality({k \in DOMAIN m : m[k] = v})]

\* C1: every distribution carrying the Sound tag has every mass in [0,1] and a
\* total mass within 0.01 of 1.
SoundnessInvariant ==
    sound =>
        /\ \A k \in DOMAIN data : InClosedUnit(data[k])
        /\ WithinTolerance(total(data))

\* C2: validate() returns the Sound distribution with the same mapping exactly
\* when the total is within 0.01 of 1 and every mass lies in the closed
\* interval [0,1]; otherwise it returns InvalidProbability.
ValidateAcceptsClosedUnit ==
    op = "validate" =>
        IF /\ WithinTolerance(total(prev.data))
           /\ \A k \in DOMAIN prev.data : InClosedUnit(prev.data[k])
            THEN ret = Ok(prev.data) /\ sound /\ data = prev.data
            ELSE ret = Err("InvalidProbability")

\* C3: the key set of &A + &B is {a + b}, the mass at s is the sum of
\* A[a] * B[b] over the pairs with a + b = s, and two fair six-sided dice give
\* 2..12 with masses 1,2,3,4,5,6,5,4,3,2,1 over 36.
Die == [k \in 1..6 |-> <<1, 6>>]

TwoDice == [s \in 2..12 |-> Norm(6 - Abs(7 - s), 36)]

\* the sum of two dice as the operator computes it
DiePlusDie == add(Die, Die)

SumConvolution ==
    op = "add" =>
        LET a == prev.data
            b == arg.data
        IN  /\ DOMAIN data = {x + y : x \in DOMAIN a, y \in DOMAIN b}
            /\ \A s \in DOMAIN data :
                   data[s] = PairMassSum(
                       {p \in (DOMAIN a) \X (DOMAIN b) : p[1] + p[2] = s}, a, b)
            /\ DiePlusDie = TwoDice

\* a sum of two two-point distributions in which two pairs meet at one key
SumConvolutionWitness ==
    /\ op = "add"
    /\ Cardinality(DOMAIN prev.data) = 2
    /\ Cardinality(DOMAIN arg.data) = 2
    /\ Cardinality(DOMAIN data) = 3
    /\ \A k \in DOMAIN data : data[k] # zero

\* C4: autoconvolute(n) returns the distribution of the sum of n + 1
\* independent draws, the (n+1)-fold sum convolution.
RECURSIVE SumOfDraws(_, _)
SumOfDraws(m, draws) ==
    IF draws = 1 THEN m ELSE add(SumOfDraws(m, draws - 1), m)

AutoconvoluteSumsNPlusOneDraws ==
    op = "autoconvolute" => data = SumOfDraws(prev.data, arg.n + 1)

\* C5: with_advantage with the single-draw parameter n = 0 leaves the
\* outcome-to-mass mapping as it was before the call.
AdvantageSingleDrawIsIdentity ==
    (op = "with_advantage" /\ arg.n = 0) => data = prev.data

\* C6: get_nearest_below(bound) returns the entry with the greatest key <=
\* bound, none when every key exceeds bound; get_value_below(bound) returns
\* that entry's mass, and zero when there is none.
GreatestAtOrBelow(m, bound) ==
    LET S == {k \in DOMAIN m : k <= bound}
    IN  IF S = {} THEN None
        ELSE LET g == CHOOSE k \in S : \A j \in S : j <= k
             IN  Some(<<g, m[g]>>)

NearestBelowIsGreatestAtOrBelow ==
    /\ op = "get_nearest_below" => ret = GreatestAtOrBelow(prev.data, arg.n)
    /\ op = "get_value_below" =>
           LET e == GreatestAtOrBelow(prev.data, arg.n)
           IN  ret = Value(IF e.kind = "Some" THEN e.val ELSE zero)

\* C7: scale(factor) and offset(delta) leave the masses untouched: as many
\* entries as before, the same multiset of masses, the same total.
ScaleOffsetKeepMasses ==
    op \in {"scale", "offset"} =>
        /\ Cardinality(DOMAIN data) = Cardinality(DOMAIN prev.data)
        /\ MassBag(data) = MassBag(prev.data)
        /\ total(data) = total(prev.data)

\* C8: the four cumulative transforms keep the key set; at every stored
\* outcome x cumulative is the sum of the masses at keys <= x,
\* cumulative_exclusive at keys < x, rev_cumulative at keys >= x,
\* rev_cumulative_exclusive at keys > x; cumulative at the maximum outcome is
\* the total mass.
CumulativeTransforms ==
    LET m == prev.data
        K == DOMAIN m
    IN  /\ op \in {"cumulative", "cumulative_exclusive", "rev_cumulative",
                   "rev_cumulative_exclusive"} => DOMAIN data = K
        /\ op = "cumulative" =>
               /\ \A x \in K : data[x] = MassSum({k \in K : k <= x}, m)
               /\ \A x \in K : (\A k \in K : k <= x) => data[x] = total(m)
        /\ op = "cumulative_exclusive" =>
               \A x \in K : data[x] = MassSum({k \in K : k < x}, m)
        /\ op = "rev_cumulative" =>
               \A x \in K : data[x] = MassSum({k \in K : k >= x}, m)
        /\ op = "rev_cumulative_exclusive" =>
               \A x \in K : data[x] = MassSum({k \in K : k > x}, m)

\* a cumulative sweep over at least two stored non-zero masses
CumulativeWitness ==
    /\ op = "cumulative"
    /\ Cardinality(DOMAIN prev.data) >= 2
    /\ \A k \in DOMAIN prev.data : prev.data[k] # zero
    /\ data # prev.data

\* C9: validate() on a Sound-tagged distribution succeeds and returns the
\* identical mapping.
ValidateIdempotentOnSound ==
    (op = "validate" /\ prev.sound) => ret = Ok(prev.data) /\ data = prev.data

\* C10: &A + &B and &B + &A are the same outcome-to-mass mapping.
SumCommutative ==
    op = "add" => data = add(arg.data, prev.data)

\* a sum of two different two-point distributions with unequal masses
SumCommutativeWitness ==
    /\ op = "add"
    /\ prev.data # arg.data
    /\ Cardinality(DOMAIN prev.data) = 2
    /\ Cardinality(DOMAIN arg.data) = 2
    /\ \E j, k \in DOMAIN data : data[j] # data[k] /\ data[j] # zero /\ data[k] # zero

\* C11: to_fpp fails with InvalidProbability for every source value outside
\* [0,1] and succeeds for every value inside it, with a magnitude in 0..MAX
\* that is value * MAX to within one unit; 0.5 gives half the range of the
\* magnitude type, 2^(FppBits - 1) (0x8000_0000_0000_0000 for 64 bits).
ToFppContract ==
    fop = "to_fpp" =>
        LET value == farg.val
        IN  IF InClosedUnit(value)
                THEN /\ fret.kind = "Ok"
                     /\ fret.val \in 0..FpnumMax
                     /\ fpp = fret.val
                     /\ RLt(RAbs(RSub(<<fret.val, 1>>, RMul(value, <<FpnumMax, 1>>))),
                            one)
                     /\ value = <<1, 2>> => fret.val = Pow2(FppBits - 1)
                ELSE fret = Err("InvalidProbability")

\* the conversion of 0.5
ToFppWitness ==
    /\ fop = "to_fpp"
    /\ farg.val = <<1, 2>>
    /\ fret.kind = "Ok"
    /\ fpp = Pow2(FppBits - 1)

\* C12: Fpp(a) * Fpp(b) has the magnitude floor(a * b / MAX), computed
\* without overflow or truncation of the product, so it stays in 0..MAX and
\* Fpp::one() * x = x.
FppMulIsWidened ==
    fop = "mul" =>
        /\ fret = FppValue((farg.lhs * farg.rhs) \div FpnumMax)
        /\ fpp \in 0..FpnumMax
        /\ farg.lhs = fpp_one => fpp = farg.rhs

\* C13: with_advantage(n) returns normally for every distribution and every
\* n: each element taken by next() has a successor for peek(), so the
\* expect("Bring me another") never fails.
AdvantageReturnsNormally ==
    op = "with_advantage" => ret = Unit

====
